---- MODULE Spec2Model ----
(***************************************************************************)
(* A model of the concurrent performance-testing engine of data_test.py:   *)
(* PerformanceTester.run_all_tests, test_endpoint_concurrency, warm_up,    *)
(* make_request and aggregate_block_metrics, running on the asyncio event  *)
(* loop (a FIFO queue of ready tasks) with an asyncio.Semaphore.           *)
(* main wraps the run: it builds the tester, runs the tests, writes the    *)
(* report with generate_report and returns.  update_block_index,           *)
(* aggregate_block_metrics and the response-time statistics are also       *)
(* studied on their own, each under a specification of its own.            *)
(* Runs on a malformed configuration, runs with a burst of warm-up         *)
(* requests and a call of test_endpoint_concurrency against a clock have   *)
(* specifications of their own too.                                        *)
(***************************************************************************)
EXTENDS Integers, Sequences, FiniteSets, TLC

(***************************************************************************)
(* Bounds of the model.                                                    *)
(***************************************************************************)
MaxEndpoints == 2
MaxRequests == 3
MaxConcurrent == 2
MaxWarmUp == 1
MaxBlock == 2
MaxWork == 4
MaxVerboseWork == 2

(***************************************************************************)
(* Python's None and optional values: None is the empty sequence, a        *)
(* present value x is <<x>>.                                               *)
(***************************************************************************)
None == <<>>
Some(x) == <<x>>

(***************************************************************************)
(* IEEE-754 binary64 arithmetic, as far as the rates need it.  A positive  *)
(* double is [m |-> its 53 significand bits, most significant (always 1)   *)
(* first, e |-> the binary exponent of m[1]]; zero is [m |-> <<>>, e |-> 0]*)
(* Every operation rounds to nearest, ties to even, as the hardware does.  *)
(***************************************************************************)
Precision == 53

FZero == [m |-> <<>>, e |-> 0]

Zeros(n) == [i \in 1..n |-> 0]

\* 2^j for the exponents the arithmetic below needs
Pow2Table == <<1, 2, 4, 8, 16, 32, 64, 128, 256, 512, 1024, 2048, 4096, 8192,
               16384, 32768, 65536, 131072, 262144, 524288, 1048576, 2097152,
               4194304, 8388608, 16777216>>
Pow2(j) == Pow2Table[j + 1]

\* a bit sequence is added and compared in limbs of LimbBits bits
LimbBits == Len(Pow2Table) - 1

\* the number a bit sequence (most significant bit first, at most LimbBits bits) spells
RECURSIVE BitsVal(_)
BitsVal(bits) ==
    IF bits = <<>> THEN 0
    ELSE IF Len(bits) = 1 THEN bits[1]
    ELSE LET h == Len(bits) \div 2
         IN  BitsVal(SubSeq(bits, 1, h)) * Pow2(Len(bits) - h)
                 + BitsVal(SubSeq(bits, h + 1, Len(bits)))

\* the n bits that spell v
ValBits(v, n) == [i \in 1..n |-> (v \div Pow2(n - i)) % 2]

\* a + b + carry of two bit sequences of equal length (most significant bit
\* first), limb by limb from the least significant one, with the carry out in front
RECURSIVE AddLimbs(_, _, _)
AddLimbs(a, b, carry) ==
    IF a = <<>> THEN (IF carry = 0 THEN <<>> ELSE <<1>>)
    ELSE LET n == Len(a)
             c == IF n < LimbBits THEN n ELSE LimbBits
             v == BitsVal(SubSeq(a, n - c + 1, n)) + BitsVal(SubSeq(b, n - c + 1, n)) + carry
         IN  AddLimbs(SubSeq(a, 1, n - c), SubSeq(b, 1, n - c), v \div Pow2(c))
                 \o ValBits(v % Pow2(c), c)

BitsAdd(a, b) == AddLimbs(a, b, 0)

\* a <= b for two bit sequences of equal length, limb by limb from the most
\* significant one
RECURSIVE BitsLeq(_, _)
BitsLeq(a, b) ==
    IF a = <<>> THEN TRUE
    ELSE LET n == Len(a)
             c == IF n < LimbBits THEN n ELSE LimbBits
             va == BitsVal(SubSeq(a, 1, c))
             vb == BitsVal(SubSeq(b, 1, c))
         IN  IF va # vb THEN va < vb
             ELSE BitsLeq(SubSeq(a, c + 1, n), SubSeq(b, c + 1, n))

\* The double nearest to the exact value whose bits (leading bit 1, of weight 2^e)
\* are `bits`, followed by a non-zero tail iff sticky: round to nearest, ties to even
RoundToDouble(bits, e, sticky) ==
    IF Len(bits) <= Precision
    THEN [m |-> bits \o Zeros(Precision - Len(bits)), e |-> e]
    ELSE LET keep == SubSeq(bits, 1, Precision)
             half == bits[Precision + 1]
             rest == sticky \/ \E i \in (Precision + 2)..Len(bits) : bits[i] = 1
             up   == half = 1 /\ (rest \/ keep[Precision] = 1)
             inc  == BitsAdd(keep, Zeros(Precision - 1) \o <<1>>)
         IN  IF ~up THEN [m |-> keep, e |-> e]
             ELSE IF Len(inc) > Precision
                  THEN [m |-> SubSeq(inc, 1, Precision), e |-> e + 1]
                  ELSE [m |-> inc, e |-> e]

\* 2^i mod n, by repeated squaring
RECURSIVE PowMod2(_, _)
PowMod2(i, n) ==
    IF i = 0 THEN 1 % n
    ELSE LET h == PowMod2(i \div 2, n)
         IN  (h * h * (IF i % 2 = 1 THEN 2 ELSE 1)) % n

\* the least j with a * 2^j >= n
RECURSIVE ShiftUp(_, _)
ShiftUp(a, n) == IF a >= n THEN 0 ELSE 1 + ShiftUp(2 * a, n)

\* Python's a / n for integers 0 <= a <= n, n > 0: the correctly rounded quotient.
\* With n <= s = a * 2^j < 2n, the i-th bit after the leading 1 of s / n is
\* floor(2 * r / n) for r = (s * 2^(i-1)) mod n, as in long division.
FDivInt(a, n) ==
    IF a = 0 THEN FZero
    ELSE LET j == ShiftUp(a, n)
             s == a * Pow2(j)
             rem(i) == ((s % n) * PowMod2(i, n)) % n
             frac == [i \in 1..Precision |-> (2 * rem(i - 1)) \div n]
         IN  RoundToDouble(<<1>> \o frac, 0 - j, rem(Precision) # 0)

\* the exact sum of two positive values given as normalised bit sequences with
\* the exponents of their leading bits, rounded to a double
AddRounded(xm, xe, ym, ye) ==
    LET lx == xe - (Len(xm) - 1)
        ly == ye - (Len(ym) - 1)
        l  == IF lx <= ly THEN lx ELSE ly
        h  == IF xe >= ye THEN xe ELSE ye
        w  == h - l + 1
        a  == Zeros(h - xe) \o xm \o Zeros(lx - l)
        b  == Zeros(h - ye) \o ym \o Zeros(ly - l)
        s  == BitsAdd(a, b)
    IN  RoundToDouble(s, h + (Len(s) - w), FALSE)

\* Python's x + y for non-negative doubles
FAdd(x, y) ==
    IF x = FZero THEN y
    ELSE IF y = FZero THEN x
    ELSE AddRounded(x.m, x.e, y.m, y.e)

\* Python's x * 100 for a non-negative double x: the exact product
\* 64x + 32x + 4x, rounded once
FMul100(x) ==
    IF x = FZero THEN FZero
    ELSE LET a  == x.m \o <<0>>             \* 64x + 32x = 96x, exactly
             b  == <<0>> \o x.m
             s  == BitsAdd(a, b)
             se == x.e + 6 + (Len(s) - Len(a))
         IN  AddRounded(s, se, x.m, x.e + 2)

\* the double of a small non-negative integer
RECURSIVE IntBits(_)
IntBits(n) == IF n = 0 THEN <<>> ELSE IntBits(n \div 2) \o <<n % 2>>

FFromInt(n) ==
    IF n = 0 THEN FZero
    ELSE LET b == IntBits(n) IN RoundToDouble(b, Len(b) - 1, FALSE)

\* x <= y for non-negative doubles
FLeq(x, y) ==
    IF x = FZero THEN TRUE
    ELSE IF y = FZero THEN FALSE
    ELSE IF x.e # y.e THEN x.e < y.e
    ELSE BitsLeq(x.m, y.m)

(***************************************************************************)
(* The inputs of a run: the HTTP outcomes and the configuration.           *)
(***************************************************************************)
\* response.status of a response that was received and drained
StatusCodes == {200, 500}

\* the exceptions session.request raises: aiohttp signals its total timeout
\* with a bare TimeoutError, a refused connection with ClientConnectorError
Exceptions == {"TimeoutError", "ClientConnectorError"}

\* end_time - start_time of one request, in clock ticks
Elapsed == {1}

\* what the network does with one request
Outcomes ==
    [kind : {"response"}, status : StatusCodes, exception : {""}, elapsed : Elapsed]
    \cup
    [kind : {"exception"}, status : {0}, exception : Exceptions, elapsed : Elapsed]

\* endpoint['path'] of the i-th configured endpoint
PathNames == <<"/network/status", "/block", "/block/transaction", "/account/balance">>

\* the endpoints list of the configuration, one entry per uses-block-index
\* flag; keys are the keys the entry has, of those the code reads unguarded
EndpointList(flags) ==
    [i \in 1..Len(flags) |-> [path |-> PathNames[i], uses_block_index |-> flags[i],
                              keys |-> {"path", "method"}]]

FlagLists == UNION {[1..n -> BOOLEAN] : n \in 0..MaxEndpoints}

\* the block-range section of the configuration: absent (enabled, start and end
\* take their defaults False, 1 and 1), or enabled with a range, maybe empty
BlockRanges ==
    {[enabled |-> FALSE, start |-> 1, end |-> 1]}
    \cup {[enabled |-> TRUE, start |-> bs, end |-> be] :
              bs \in 1..MaxBlock, be \in 0..MaxBlock}

\* PerformanceTester.__init__: the attributes read from the configuration
\* file; keys are the keys self.config has, of those the code reads unguarded
Configs ==
    {[keys |-> {"endpoints"},
      endpoints |-> EndpointList(flags), use_block_range |-> br.enabled,
      block_start |-> br.start, block_end |-> br.end,
      concurrent_requests |-> k, total_requests |-> n, warm_up_requests |-> w,
      verbose |-> v] :
        flags \in FlagLists, br \in BlockRanges,
        k \in 1..MaxConcurrent, n \in 0..MaxRequests, w \in 0..MaxWarmUp,
        v \in BOOLEAN}

\* a variant of the choice that ignores the global block-range switch
uses_sweeper_flag_only(cfg, endpoint_def) == endpoint_def.uses_block_index

\* run_all_tests: does this endpoint go through the block range?
uses_sweeper(cfg, endpoint_def) ==
    cfg.use_block_range /\ endpoint_def.uses_block_index

\* the number of test_endpoint_concurrency calls a complete run makes
RECURSIVE Invocations(_, _)
Invocations(cfg, i) ==
    IF i > Len(cfg.endpoints) THEN 0
    ELSE (IF uses_sweeper(cfg, cfg.endpoints[i])
          THEN (IF cfg.block_end >= cfg.block_start
                THEN cfg.block_end - cfg.block_start + 1 ELSE 0)
          ELSE 1) + Invocations(cfg, i + 1)

\* the configurations explored: at most MaxWork requests in a complete run,
\* and at most MaxVerboseWork in a run that keeps the record of every request
BoundedConfigs ==
    {cfg \in Configs :
        /\ cfg.block_end >= cfg.block_start - 1
        /\ Invocations(cfg, 1) * (cfg.total_requests + cfg.warm_up_requests)
               <= IF cfg.verbose THEN MaxVerboseWork ELSE MaxWork}

(***************************************************************************)
(* make_request and str(e).                                                *)
(***************************************************************************)
\* str(e) of the exception caught in make_request
str(e) ==
    CASE e = "TimeoutError" -> ""
      [] e = "ClientConnectorError" -> "Cannot connect to host"
      [] e = "KeyError" -> "'method'"

\* make_request for an endpoint without the key method: endpoint["method"]
\* raises KeyError inside the try block, before session.request is called
NoMethod ==
    [kind |-> "exception", status |-> 0, exception |-> "KeyError", elapsed |-> 0]

\* the TimingRecord make_request returns for one outcome of its request; the
\* key request_id is set only if a request_id was passed (None: no such key)
make_request(outcome, request_id) ==
    IF outcome.kind = "response"
    THEN [success |-> TRUE, response_time |-> outcome.elapsed,
          status_code |-> Some(outcome.status), error |-> None,
          request_id |-> request_id]
    ELSE [success |-> FALSE, response_time |-> outcome.elapsed,
          status_code |-> None, error |-> Some(str(outcome.exception)),
          request_id |-> request_id]

\* bounded_request: the request_id it passes to make_request
bounded_request_id(cfg, req_id) == IF cfg.verbose THEN Some(req_id) ELSE None

VARIABLES
    config,         \* the PerformanceTester's attributes, set by __init__
    pc,             \* where the coroutine run_all_tests is
    endpoint,       \* run_all_tests: index of the endpoint of the for loop
    block_index,    \* the block index of the Load Driver call, or None
    block_metrics,  \* run_all_tests: the PerformanceMetrics of the blocks so far
    all_results,    \* run_all_tests: the results so far
    exception,      \* None, or the exception that left run_all_tests
    task,           \* the tasks of the current asyncio.gather, by position
    ready,          \* the event loop's FIFO queue of tasks ready to run
    sem_value,      \* asyncio.Semaphore._value
    sem_waiters,    \* asyncio.Semaphore._waiters
    network,        \* the HTTP requests sent and not yet answered
    report,         \* main: the report generate_report has built, or None
    main_return,    \* None, or the value main() has returned
    exit_status,    \* None, or the exit status of the process
    call            \* a call of one function on its own, outside a run, or None

\* what main() leaves behind after run_all_tests
cli == <<report, main_return, exit_status>>

vars == <<config, pc, endpoint, block_index, block_metrics, all_results,
          exception, task, ready, sem_value, sem_waiters, network, cli, call>>

\* a task created by asyncio.gather and not yet run
NewTask == [state |-> "ready", io |-> None, result |-> None]

\* the tasks gather creates for n coroutines, and the order it schedules them in
NewTasks(n) == [i \in 0..(n - 1) |-> NewTask]
Scheduled(n) == [i \in 1..n |-> i - 1]

\* no function is called on its own during a run
NoCall == [function |-> "none"]

\* the attributes at rest, when no tester has read a configuration
NoConfig ==
    [keys |-> {"endpoints"}, endpoints |-> <<>>, use_block_range |-> FALSE, block_start |-> 1, block_end |-> 1,
     concurrent_requests |-> 1, total_requests |-> 1, warm_up_requests |-> 0,
     verbose |-> FALSE]

\* main, after PerformanceTester(args.config, verbose=args.verbose): the tester
\* holds the configuration and run_all_tests is about to start, or open() has
\* raised FileNotFoundError because no file has the name --config gives
Init ==
    /\ \/ /\ config \in BoundedConfigs
          /\ pc = "run_all_tests"
          /\ exception = None
       \/ /\ config = NoConfig
          /\ pc = "no_config"
          /\ exception = Some([type |-> "FileNotFoundError", raised_in |-> "__init__"])
    /\ endpoint = 1
    /\ block_index = None
    /\ block_metrics = <<>>
    /\ all_results = <<>>
    /\ task = NewTasks(0)
    /\ ready = <<>>
    /\ sem_value = 0
    /\ sem_waiters = <<>>
    /\ network = {}
    /\ report = None
    /\ main_return = None
    /\ exit_status = None
    /\ call = NoCall

(***************************************************************************)
(* test_endpoint_concurrency: the reduction of the results to a            *)
(* PerformanceMetrics.  The response-time fields of the run are min and    *)
(* max; the mean and the percentiles are computed below, on their own, by  *)
(* response_time_statistics, and the throughput against a clock.           *)
(***************************************************************************)
SeqMin(s) == CHOOSE v \in {s[i] : i \in DOMAIN s} : \A i \in DOMAIN s : v <= s[i]
SeqMax(s) == CHOOSE v \in {s[i] : i \in DOMAIN s} : \A i \in DOMAIN s : v >= s[i]

\* Python's truth value of r["error"]
truthy(error) == error # None /\ error[1] # ""

\* a variant of the partition that counts every result as failed
failed_unfiltered(results) == results

\* successful_results and failed_results
successful(results) == SelectSeq(results, LAMBDA r : r.success)
failed(results) == SelectSeq(results, LAMBDA r : ~r.success)

\* (count / total_requests) * 100, in floating point
percentage(count, total) == FMul100(FDivInt(count, total))

\* the percentages of the totals a bounded run can reach, computed once
PercentageTable ==
    [total \in 1..(MaxRequests + MaxWork) |->
        [count \in 0..total |-> percentage(count, total)]]

rate(count, total) ==
    IF total \in DOMAIN PercentageTable /\ count \in DOMAIN PercentageTable[total]
    THEN PercentageTable[total][count]
    ELSE percentage(count, total)

\* the division by self.total_requests raises ZeroDivisionError
metrics_raise(cfg) == cfg.total_requests = 0

\* the PerformanceMetrics built from the results of the measurement phase
performance_metrics(cfg, path, results, block) ==
    LET successful_results == successful(results)
        failed_results == failed(results)
        response_times == [i \in DOMAIN successful_results |->
                               successful_results[i].response_time]
        errors == {failed_results[i].error[1] :
                       i \in {j \in DOMAIN failed_results : truthy(failed_results[j].error)}}
    IN  [type |-> "PerformanceMetrics",
         endpoint |-> path,
         total_requests |-> cfg.total_requests,
         successful_requests |-> Len(successful_results),
         failed_requests |-> Len(failed_results),
         min_response_time |-> IF response_times # <<>> THEN SeqMin(response_times) ELSE 0,
         max_response_time |-> IF response_times # <<>> THEN SeqMax(response_times) ELSE 0,
         success_rate |-> rate(Len(successful_results), cfg.total_requests),
         error_rate |-> rate(Len(failed_results), cfg.total_requests),
         errors |-> errors,
         block_index |-> block,
         individual_timings |-> IF cfg.verbose THEN Some(results) ELSE None]

(***************************************************************************)
(* aggregate_block_metrics.  avg_response_time_all_blocks and              *)
(* throughput_all_blocks are not part of the model.                        *)
(***************************************************************************)
\* a variant of the sum that keeps the count of the last block only
sum_of_last(s) == IF s = <<>> THEN 0 ELSE s[Len(s)]

RECURSIVE SumSeq(_)
SumSeq(s) == IF s = <<>> THEN 0 ELSE Head(s) + SumSeq(Tail(s))

\* a variant of the minimum that ranges over every block
all_mins(bm) == [i \in DOMAIN bm |-> bm[i].min_response_time]

\* the blocks the min() of line 246 ranges over
positive_mins(bm) ==
    SelectSeq([i \in DOMAIN bm |-> bm[i].min_response_time], LAMBDA v : v > 0)

\* min() or max() of an empty sequence raises ValueError
aggregate_raises(bm) ==
    \/ bm # <<>> /\ positive_mins(bm) = <<>>
    \/ bm = <<>>

aggregate_block_metrics(cfg, path, bm) ==
    LET total_requests == SumSeq([i \in DOMAIN bm |-> bm[i].total_requests])
        total_successful == SumSeq([i \in DOMAIN bm |-> bm[i].successful_requests])
        total_failed == SumSeq([i \in DOMAIN bm |-> bm[i].failed_requests])
    IN  [type |-> "AggregatedMetrics",
         endpoint |-> path,
         block_range |-> <<cfg.block_start, cfg.block_end>>,
         total_blocks_tested |-> Len(bm),
         total_requests_all_blocks |-> total_requests,
         successful_requests_all_blocks |-> total_successful,
         failed_requests_all_blocks |-> total_failed,
         min_response_time_all_blocks |->
             IF bm # <<>> THEN SeqMin(positive_mins(bm)) ELSE 0,
         max_response_time_all_blocks |->
             SeqMax([i \in DOMAIN bm |-> bm[i].max_response_time]),
         success_rate_all_blocks |->
             IF total_requests > 0 THEN rate(total_successful, total_requests) ELSE FZero,
         error_rate_all_blocks |->
             IF total_requests > 0 THEN rate(total_failed, total_requests) ELSE FZero,
         block_metrics |-> bm]

(***************************************************************************)
(* asyncio: the semaphore and gather.                                      *)
(***************************************************************************)
\* a variant of the semaphore that has one slot whatever the configuration says
one_slot(cfg) == 1

\* asyncio.Semaphore(self.concurrent_requests)
semaphore_init(cfg) == cfg.concurrent_requests

\* a variant of the semaphore that never locks
locked_never(value, waiters) == FALSE

\* Semaphore.locked(): no slot is free, or somebody is already queueing
locked(value, waiters) == value = 0 \/ waiters # <<>>

\* a variant of the semaphore that wakes the waiter that queued last
last_waiter(waiters, t) ==
    LET waiting == SelectSeq(waiters, LAMBDA i : t[i].state = "waiting")
    IN  IF waiting = <<>> THEN None ELSE Some(waiting[Len(waiting)])

\* Semaphore._wake_up_next: the first waiter whose future is not done yet
next_waiter(waiters, t) ==
    LET waiting == SelectSeq(waiters, LAMBDA i : t[i].state = "waiting")
    IN  IF waiting = <<>> THEN None ELSE Some(waiting[1])

\* the state after Semaphore._wake_up_next: the waiter chosen gets the slot and
\* is scheduled to run
wake_up_next(value, waiters, t, rdy) ==
    LET w == next_waiter(waiters, t)
    IN  IF w = None
        THEN [value |-> value, task |-> t, ready |-> rdy]
        ELSE [value |-> value - 1,
              task |-> [t EXCEPT ![w[1]].state = "woken"],
              ready |-> Append(rdy, w[1])]

\* a variant of the wait that resumes its caller when the first task is done
first_completed(t) == DOMAIN t = {} \/ \E i \in DOMAIN t : t[i].state = "done"

\* await asyncio.gather(*tasks) resumes its caller when every task is done
gather_done(t) == \A i \in DOMAIN t : t[i].state = "done"

\* a variant of gather that returns the results of the tasks last task first
results_last_first(t) ==
    LET n == Cardinality(DOMAIN t)
        done == SelectSeq([i \in 1..n |-> t[n - i].result], LAMBDA r : r # None)
    IN  [i \in DOMAIN done |-> done[i][1]]

\* what gather returns: the tasks' results in the order of the coroutines
gather_results(t) ==
    LET n == Cardinality(DOMAIN t)
        done == SelectSeq([i \in 1..n |-> t[i - 1].result], LAMBDA r : r # None)
    IN  [i \in DOMAIN done |-> done[i][1]]

\* the request make_request sends for the task at position i of the current gather
request(i) ==
    [endpoint |-> config.endpoints[endpoint].path, block_index |-> block_index,
     warm_up |-> (pc = "warm_up"), id |-> i]

(***************************************************************************)
(* run_all_tests.                                                          *)
(***************************************************************************)
\* range(self.block_start, self.block_end + 1): the first index and the step
first_block(cfg) == cfg.block_start
next_block(b) == b + 1

\* a variant of the range that stops one index early: range(start, end)
block_range_exclusive(cfg, b) == b < cfg.block_end

\* is b still inside range(self.block_start, self.block_end + 1)?
in_block_range(cfg, b) == b <= cfg.block_end

\* the for loop over the endpoints: the next endpoint, or the return
\* self.config["endpoints"] and, in the body of the loop, endpoint['path']
\* raise KeyError when the key is missing
key_missing(cfg, i) ==
    \/ "endpoints" \notin cfg.keys
    \/ i <= Len(cfg.endpoints) /\ "path" \notin cfg.endpoints[i].keys

NextEndpoint ==
    /\ pc = "run_all_tests"
    /\ IF key_missing(config, endpoint)
       THEN /\ pc' = "crashed"
            /\ exception' = Some([type |-> "KeyError", raised_in |-> "run_all_tests"])
            /\ UNCHANGED <<block_index, block_metrics>>
       ELSE IF endpoint > Len(config.endpoints)
       THEN /\ pc' = "done"
            /\ UNCHANGED <<block_index, block_metrics, exception>>
       ELSE IF uses_sweeper(config, config.endpoints[endpoint])
            THEN /\ pc' = "block_loop"
                 /\ block_index' = Some(first_block(config))
                 /\ block_metrics' = <<>>
                 /\ UNCHANGED exception
            ELSE /\ pc' = "test_endpoint"
                 /\ block_index' = None
                 /\ UNCHANGED <<block_metrics, exception>>
    /\ UNCHANGED <<call, cli, config, endpoint, all_results, task, ready,
                   sem_value, sem_waiters, network>>

\* the for loop over the block range: the next block, or the aggregation of
\* the blocks and the append of its result
BlockLoop ==
    /\ pc = "block_loop"
    /\ IF in_block_range(config, block_index[1])
       THEN /\ pc' = "test_endpoint"
            /\ UNCHANGED <<endpoint, block_index, all_results, exception>>
       ELSE IF aggregate_raises(block_metrics)
            THEN /\ pc' = "crashed"
                 /\ exception' = Some([type |-> "ValueError",
                                       raised_in |-> "aggregate_block_metrics"])
                 /\ UNCHANGED <<endpoint, block_index, all_results>>
            ELSE /\ pc' = "run_all_tests"
                 /\ all_results' = Append(all_results,
                        aggregate_block_metrics(config,
                            config.endpoints[endpoint].path, block_metrics))
                 /\ endpoint' = endpoint + 1
                 /\ block_index' = None
                 /\ UNCHANGED exception
    /\ UNCHANGED <<call, cli, config, block_metrics, task, ready, sem_value, sem_waiters, network>>

(***************************************************************************)
(* test_endpoint_concurrency and warm_up.                                  *)
(***************************************************************************)
\* the call: warm_up creates its tasks and awaits their gather
TestEndpoint ==
    /\ pc = "test_endpoint"
    /\ pc' = "warm_up"
    /\ task' = NewTasks(config.warm_up_requests)
    /\ ready' = Scheduled(config.warm_up_requests)
    /\ UNCHANGED <<cli, config, endpoint, block_index, block_metrics, all_results,
                   exception, sem_value, sem_waiters, network>>

\* a variant of the measurement's tasks with one more task for every
\* warm-up request
tasks_with_warm_up(cfg) == NewTasks(cfg.total_requests + cfg.warm_up_requests)

\* tasks = [bounded_request(i) for i in range(self.total_requests)]
bounded_request_tasks(cfg) == NewTasks(cfg.total_requests)

\* warm_up's gather is done: the semaphore and the measurement tasks are created
WarmUpGathered ==
    /\ pc = "warm_up"
    /\ gather_done(task)
    /\ pc' = "measure"
    /\ sem_value' = semaphore_init(config)
    /\ sem_waiters' = <<>>
    /\ task' = bounded_request_tasks(config)
    /\ ready' = Scheduled(config.total_requests)
    /\ UNCHANGED <<cli, config, endpoint, block_index, block_metrics, all_results,
                   exception, network>>

\* the measurement's gather is done: the metrics are computed and returned to
\* run_all_tests, which appends them
MeasureGathered ==
    /\ pc = "measure"
    /\ gather_done(task)
    /\ IF metrics_raise(config)
       THEN /\ pc' = "crashed"
            /\ exception' = Some([type |-> "ZeroDivisionError",
                                  raised_in |-> "test_endpoint_concurrency"])
            /\ UNCHANGED <<endpoint, block_index, block_metrics, all_results>>
       ELSE LET metrics == performance_metrics(config,
                               config.endpoints[endpoint].path,
                               gather_results(task), block_index)
            IN  IF block_index # None
                THEN /\ block_metrics' = Append(block_metrics, metrics)
                     /\ block_index' = Some(next_block(block_index[1]))
                     /\ pc' = "block_loop"
                     /\ UNCHANGED <<endpoint, all_results, exception>>
                ELSE /\ all_results' = Append(all_results, metrics)
                     /\ endpoint' = endpoint + 1
                     /\ pc' = "run_all_tests"
                     /\ UNCHANGED <<block_index, block_metrics, exception>>
    /\ UNCHANGED <<cli, config, task, ready, sem_value, sem_waiters, network>>

(***************************************************************************)
(* The tasks: the event loop runs the task at the head of its ready queue  *)
(* up to the task's next await.                                            *)
(***************************************************************************)
Running == ready[1]

\* session.request is called, and sends: the endpoint has the key method
sends(endpoint_def) == "method" \in endpoint_def.keys

\* the task of a make_request that returned its record without a request sent
not_sent(request_id) ==
    [state |-> "done", io |-> Some(NoMethod),
     result |-> Some(make_request(NoMethod, request_id))]

\* a warm-up task starts: make_request sends its request
WarmUpRequestStart ==
    /\ pc = "warm_up"
    /\ ready # <<>>
    /\ task[Running].state = "ready"
    /\ IF sends(config.endpoints[endpoint])
       THEN /\ task' = [task EXCEPT ![Running].state = "in_flight"]
            /\ network' = network \cup {request(Running)}
       ELSE /\ task' = [task EXCEPT ![Running] = not_sent(None)]
            /\ UNCHANGED network
    /\ ready' = Tail(ready)
    /\ UNCHANGED <<cli, config, pc, endpoint, block_index, block_metrics, all_results,
                   exception, sem_value, sem_waiters>>

\* bounded_request starts with the semaphore free: it takes a slot and sends
AcquireFree ==
    /\ pc = "measure"
    /\ ready # <<>>
    /\ task[Running].state = "ready"
    /\ ~locked(sem_value, sem_waiters)
    /\ IF sends(config.endpoints[endpoint])
       THEN /\ sem_value' = sem_value - 1
            /\ task' = [task EXCEPT ![Running].state = "in_flight"]
            /\ network' = network \cup {request(Running)}
            /\ ready' = Tail(ready)
       ELSE LET me == Running
                finished == [task EXCEPT
                                ![me] = not_sent(bounded_request_id(config, me))]
                after == wake_up_next(sem_value - 1 + 1, sem_waiters, finished,
                                      Tail(ready))
            IN  /\ sem_value' = after.value
                /\ task' = after.task
                /\ ready' = after.ready
                /\ UNCHANGED network
    /\ UNCHANGED <<cli, config, pc, endpoint, block_index, block_metrics, all_results,
                   exception, sem_waiters>>

\* bounded_request starts with the semaphore locked: it queues
AcquireBlocked ==
    /\ pc = "measure"
    /\ ready # <<>>
    /\ task[Running].state = "ready"
    /\ locked(sem_value, sem_waiters)
    /\ sem_waiters' = Append(sem_waiters, Running)
    /\ task' = [task EXCEPT ![Running].state = "waiting"]
    /\ ready' = Tail(ready)
    /\ UNCHANGED <<cli, config, pc, endpoint, block_index, block_metrics, all_results,
                   exception, sem_value, network>>

\* a woken waiter runs: it leaves the queue, passes a free slot on, and sends
AcquireWoken ==
    /\ pc = "measure"
    /\ ready # <<>>
    /\ task[Running].state = "woken"
    /\ LET me == Running
           left == SelectSeq(sem_waiters, LAMBDA i : i # me)
           sent == IF sends(config.endpoints[endpoint])
                   THEN [task EXCEPT ![me].state = "in_flight"]
                   ELSE [task EXCEPT ![me] = not_sent(bounded_request_id(config, me))]
           acquired == IF sem_value > 0
                       THEN wake_up_next(sem_value, left, sent, Tail(ready))
                       ELSE [value |-> sem_value, task |-> sent, ready |-> Tail(ready)]
           after == IF sends(config.endpoints[endpoint])
                    THEN acquired
                    ELSE wake_up_next(acquired.value + 1, left, acquired.task,
                                      acquired.ready)
       IN  /\ sem_waiters' = left
           /\ sem_value' = after.value
           /\ task' = after.task
           /\ ready' = after.ready
           /\ network' = IF sends(config.endpoints[endpoint])
                         THEN network \cup {request(me)}
                         ELSE network
    /\ UNCHANGED <<cli, config, pc, endpoint, block_index, block_metrics, all_results,
                   exception>>

\* the network answers a request of the current gather, or the request fails
\* or runs into its timeout: the task waiting for it becomes ready
NetworkComplete(i, outcome) ==
    /\ pc \in {"warm_up", "measure"}
    /\ i \in DOMAIN task
    /\ task[i].state = "in_flight"
    /\ request(i) \in network
    /\ network' = network \ {request(i)}
    /\ task' = [task EXCEPT ![i].state = "responded", ![i].io = Some(outcome)]
    /\ ready' = Append(ready, i)
    /\ UNCHANGED <<cli, config, pc, endpoint, block_index, block_metrics, all_results,
                   exception, sem_value, sem_waiters>>

\* a warm-up task resumes: make_request returns its record
WarmUpRequestReturns ==
    /\ pc = "warm_up"
    /\ ready # <<>>
    /\ task[Running].state = "responded"
    /\ task' = [task EXCEPT ![Running].state = "done",
                            ![Running].result =
                                Some(make_request(task[Running].io[1], None))]
    /\ ready' = Tail(ready)
    /\ UNCHANGED <<cli, config, pc, endpoint, block_index, block_metrics, all_results,
                   exception, sem_value, sem_waiters, network>>

\* a measurement task resumes: make_request returns its record and
\* bounded_request leaves the semaphore (release, then _wake_up_next)
BoundedRequestReturns ==
    /\ pc = "measure"
    /\ ready # <<>>
    /\ task[Running].state = "responded"
    /\ LET me == Running
           finished == [task EXCEPT ![me].state = "done",
                                    ![me].result = Some(make_request(task[me].io[1],
                                                  bounded_request_id(config, me)))]
           after == wake_up_next(sem_value + 1, sem_waiters, finished, Tail(ready))
       IN  /\ sem_value' = after.value
           /\ task' = after.task
           /\ ready' = after.ready
    /\ UNCHANGED <<cli, config, pc, endpoint, block_index, block_metrics, all_results,
                   exception, sem_waiters, network>>

(***************************************************************************)
(* generate_report and main.  Of the report the model keeps the keys the   *)
(* metrics of the model have; json.dump writes every key of a dict, None   *)
(* as null: a key that is in the dict is in the file.                      *)
(***************************************************************************)
\* dataclasses.asdict(m): the fields of the dataclass
asdict(m) == [k \in DOMAIN m \ {"type"} |-> m[k]]

\* a variant of the stripping that keeps the key
keep_timings(cfg, metric_dict) == metric_dict

\* if not self.verbose and "individual_timings" in d: d.pop("individual_timings")
strip_timings(cfg, metric_dict) ==
    IF ~cfg.verbose /\ "individual_timings" \in DOMAIN metric_dict
    THEN [k \in DOMAIN metric_dict \ {"individual_timings"} |-> metric_dict[k]]
    ELSE metric_dict

\* the entry of report["results"] for one result of run_all_tests
report_item(cfg, result) ==
    IF result.type = "AggregatedMetrics"
    THEN [endpoint |-> result.endpoint,
          block_range |-> result.block_range,
          total_blocks_tested |-> result.total_blocks_tested,
          total_requests_all_blocks |-> result.total_requests_all_blocks,
          successful_requests_all_blocks |-> result.successful_requests_all_blocks,
          failed_requests_all_blocks |-> result.failed_requests_all_blocks,
          min_response_time_all_blocks |-> result.min_response_time_all_blocks,
          max_response_time_all_blocks |-> result.max_response_time_all_blocks,
          success_rate_all_blocks |-> result.success_rate_all_blocks,
          error_rate_all_blocks |-> result.error_rate_all_blocks,
          block_metrics |->
              [i \in DOMAIN result.block_metrics |->
                  strip_timings(cfg, asdict(result.block_metrics[i]))]]
    ELSE strip_timings(cfg, asdict(result))

generate_report(cfg, results) ==
    [test_summary |-> [total_endpoints |-> Len(results),
                       concurrent_requests |-> cfg.concurrent_requests,
                       total_requests_per_endpoint |-> cfg.total_requests],
     results |-> [i \in DOMAIN results |-> report_item(cfg, results[i])]]

\* run_all_tests has returned: generate_report builds the report and writes
\* it to the output file
GenerateReport ==
    /\ pc = "done"
    /\ pc' = "reported"
    /\ report' = Some(generate_report(config, all_results))
    /\ UNCHANGED <<call, config, endpoint, block_index, block_metrics, all_results,
                   exception, task, ready, sem_value, sem_waiters, network,
                   main_return, exit_status>>

\* the output file cannot be written: os.makedirs or open raises OSError
GenerateReportRaises ==
    /\ pc = "done"
    /\ pc' = "report_failed"
    /\ exception' = Some([type |-> "OSError", raised_in |-> "generate_report"])
    /\ UNCHANGED <<call, cli, config, endpoint, block_index, block_metrics, all_results,
                   task, ready, sem_value, sem_waiters, network>>

\* the value main returns: 1 from either except clause, 0 after the try block
main_returns(exc) == IF exc # None THEN 1 ELSE 0

\* the try block of main is left, by its end or by an exception
MainReturns ==
    /\ pc \in {"reported", "report_failed", "crashed", "no_config"}
    /\ pc' = "returned"
    /\ main_return' = Some(main_returns(exception))
    /\ UNCHANGED <<call, config, endpoint, block_index, block_metrics, all_results,
                   exception, task, ready, sem_value, sem_waiters, network,
                   report, exit_status>>

\* the exit status of the interpreter when the script has run to its end:
\* the value of main is bound to the name exit_code and is passed to no exit
interpreter_exit(exit_code) == 0

\* exit_code = asyncio.run(main()) is the last statement of the script
ProcessExits ==
    /\ pc = "returned"
    /\ pc' = "exited"
    /\ exit_status' = Some(interpreter_exit(main_return[1]))
    /\ UNCHANGED <<call, config, endpoint, block_index, block_metrics, all_results,
                   exception, task, ready, sem_value, sem_waiters, network,
                   report, main_return>>

Next ==
    \/ NextEndpoint
    \/ BlockLoop
    \/ TestEndpoint /\ UNCHANGED call
    \/ WarmUpGathered /\ UNCHANGED call
    \/ MeasureGathered /\ UNCHANGED call
    \/ WarmUpRequestStart /\ UNCHANGED call
    \/ AcquireFree /\ UNCHANGED call
    \/ AcquireBlocked /\ UNCHANGED call
    \/ AcquireWoken /\ UNCHANGED call
    \/ \E i \in 0..(MaxRequests + MaxWarmUp), outcome \in Outcomes : NetworkComplete(i, outcome) /\ UNCHANGED call
    \/ WarmUpRequestReturns /\ UNCHANGED call
    \/ BoundedRequestReturns /\ UNCHANGED call
    \/ GenerateReport
    \/ GenerateReportRaises
    \/ MainReturns
    \/ ProcessExits

Spec == Init /\ [][Next]_vars

\* the event loop runs every ready task, and every request sent is answered,
\* fails or times out
FairSpec == Spec /\ WF_vars(Next)

(***************************************************************************)
(* Runs on a malformed configuration: the file has no endpoints list, or   *)
(* an entry of the list lacks its path, its method or both.                *)
(***************************************************************************)
MaxMalformedWork == 4

\* a configuration that lacks one of the keys the code reads unguarded
malformed(cfg) ==
    \/ "endpoints" \notin cfg.keys
    \/ \E i \in DOMAIN cfg.endpoints : cfg.endpoints[i].keys # {"path", "method"}

\* the complete configurations these runs start from
WellFormed ==
    {cfg \in Configs :
        /\ ~cfg.verbose
        /\ cfg.block_end >= cfg.block_start - 1
        /\ Invocations(cfg, 1) * (cfg.total_requests + cfg.warm_up_requests)
               <= MaxMalformedWork}

\* what yaml.safe_load returns for a file like cfg's that lacks the endpoints
\* list, or in which one entry of the list lacks a key
MalformedConfigs(cfg) ==
    {[cfg EXCEPT !.keys = {}]}
    \cup {[cfg EXCEPT !.endpoints[i].keys = ks] :
              i \in DOMAIN cfg.endpoints, ks \in {{"path"}, {"method"}, {}}}

\* main on a malformed configuration file, or on the name of no file
MalformedInit ==
    /\ \/ /\ \E cfg \in WellFormed : config \in MalformedConfigs(cfg)
          /\ pc = "run_all_tests"
          /\ exception = None
       \/ /\ config = NoConfig
          /\ pc = "no_config"
          /\ exception = Some([type |-> "FileNotFoundError", raised_in |-> "__init__"])
    /\ endpoint = 1
    /\ block_index = None
    /\ block_metrics = <<>>
    /\ all_results = <<>>
    /\ task = NewTasks(0)
    /\ ready = <<>>
    /\ sem_value = 0
    /\ sem_waiters = <<>>
    /\ network = {}
    /\ report = None
    /\ main_return = None
    /\ exit_status = None
    /\ call = NoCall

MalformedSpec == MalformedInit /\ [][Next]_vars

(***************************************************************************)
(* Runs with a burst of warm-up requests: more warm-up requests than the   *)
(* runs above have, and more than the semaphore has slots.                 *)
(***************************************************************************)
MaxBurst == 2
MaxBurstWork == 4

\* the configurations of these runs: two warm-up requests or more for every
\* invocation, and at most MaxBurstWork requests in a complete run
BurstConfigs ==
    {[cfg EXCEPT !.warm_up_requests = w] :
        cfg \in {c \in Configs : c.warm_up_requests = 0 /\ ~c.verbose
                                     /\ c.block_end >= c.block_start - 1},
        w \in 2..MaxBurst}

BoundedBurstConfigs ==
    {cfg \in BurstConfigs :
        Invocations(cfg, 1) * (cfg.total_requests + cfg.warm_up_requests) <= MaxBurstWork}

BurstInit ==
    /\ config \in BoundedBurstConfigs
    /\ pc = "run_all_tests"
    /\ exception = None
    /\ endpoint = 1
    /\ block_index = None
    /\ block_metrics = <<>>
    /\ all_results = <<>>
    /\ task = NewTasks(0)
    /\ ready = <<>>
    /\ sem_value = 0
    /\ sem_waiters = <<>>
    /\ network = {}
    /\ report = None
    /\ main_return = None
    /\ exit_status = None
    /\ call = NoCall

BurstSpec == BurstInit /\ [][Next]_vars

(***************************************************************************)
(* A call of one function on its own.  While it is studied no run of the   *)
(* tester is going on: the variables of the run rest.                      *)
(***************************************************************************)
NoRun ==
    /\ config = NoConfig
    /\ pc = "call"
    /\ endpoint = 1
    /\ block_index = None
    /\ block_metrics = <<>>
    /\ all_results = <<>>
    /\ exception = None
    /\ task = NewTasks(0)
    /\ ready = <<>>
    /\ sem_value = 0
    /\ sem_waiters = <<>>
    /\ network = {}
    /\ report = None
    /\ main_return = None
    /\ exit_status = None

run == <<config, pc, endpoint, block_index, block_metrics, all_results,
         exception, task, ready, sem_value, sem_waiters, network, cli>>

(***************************************************************************)
(* Python objects.  A value is an int or a reference to an object of the   *)
(* heap; an object is a dict (a function from its keys to values) or a     *)
(* list (a sequence of values) and can be changed in place.  A tree is a   *)
(* value written out: its dicts and lists hold trees instead of references.*)
(* Each kind is a record with the one field that names it.                 *)
(***************************************************************************)
PyInt(n) == [int |-> n]
PyDict(d) == [dict |-> d]
PyList(s) == [list |-> s]
PyRef(a) == [ref |-> a]

is_ref(value) == "ref" \in DOMAIN value

\* the keys of a dict, as d.items() yields them
KeyOrder == <<"block_identifier", "hash", "index", "items", "method", "payload">>
keys(d) == SelectSeq(KeyOrder, LAMBDA k : k \in DOMAIN d)
position(ks, k) == CHOOSE i \in 1..Len(ks) : ks[i] = k

is_dict(heap, value) == is_ref(value) /\ "dict" \in DOMAIN heap[value.ref]
is_list(heap, value) == is_ref(value) /\ "list" \in DOMAIN heap[value.ref]

\* the tree a value spells in a heap
RECURSIVE tree_of(_, _)
tree_of(heap, value) ==
    IF ~is_ref(value) THEN value
    ELSE LET obj == heap[value.ref]
         IN  IF "list" \in DOMAIN obj
             THEN PyList([i \in DOMAIN obj.list |-> tree_of(heap, obj.list[i])])
             ELSE PyDict([k \in DOMAIN obj.dict |-> tree_of(heap, obj.dict[k])])

\* new objects for a tree (yaml.safe_load, copy.deepcopy): the heap with them
\* and the value that refers to them
RECURSIVE build(_, _)
RECURSIVE build_all(_, _)
build(heap, tree) ==
    IF "int" \in DOMAIN tree THEN [heap |-> heap, value |-> tree]
    ELSE IF "list" \in DOMAIN tree
    THEN LET kids == build_all(heap, tree.list)
         IN  [heap |-> Append(kids.heap, PyList(kids.values)),
              value |-> PyRef(Len(kids.heap) + 1)]
    ELSE LET ks == keys(tree.dict)
             kids == build_all(heap, [i \in 1..Len(ks) |-> tree.dict[ks[i]]])
         IN  [heap |-> Append(kids.heap,
                          PyDict([k \in DOMAIN tree.dict |-> kids.values[position(ks, k)]])),
              value |-> PyRef(Len(kids.heap) + 1)]

build_all(heap, trees) ==
    IF trees = <<>> THEN [heap |-> heap, values |-> <<>>]
    ELSE LET first == build(heap, Head(trees))
             rest == build_all(first.heap, Tail(trees))
         IN  [heap |-> rest.heap, values |-> <<first.value>> \o rest.values]

\* copy.copy and dict.copy: a new object with the same values, so that the
\* objects they refer to are shared with the original
shallow_copy(heap, value) ==
    IF ~is_ref(value) THEN [heap |-> heap, value |-> value]
    ELSE [heap |-> Append(heap, heap[value.ref]), value |-> PyRef(Len(heap) + 1)]

\* a variant of the deep copy that copies the top object only
deepcopy_top_only(heap, value) == shallow_copy(heap, value)

\* copy.deepcopy: new objects all the way down
deepcopy(heap, value) == build(heap, tree_of(heap, value))

(***************************************************************************)
(* update_block_index.                                                     *)
(***************************************************************************)
\* a variant of the loop over a list that leaves its items alone
skip_items(heap, items, b) == heap

\* update_dict(d): sets d["block_identifier"]["index"], then visits the dicts
\* among d's values and the dicts among the items of the lists among them
RECURSIVE update_dict(_, _, _)
RECURSIVE update_values(_, _, _)
RECURSIVE update_each(_, _, _)

\* for item in value: if isinstance(item, dict): update_dict(item)
update_items(heap, items, b) == update_each(heap, items, b)

update_each(heap, items, b) ==
    IF items = <<>> THEN heap
    ELSE LET item == Head(items)
             after == IF is_dict(heap, item) THEN update_dict(heap, item.ref, b) ELSE heap
         IN  update_each(after, Tail(items), b)

\* for key, value in d.items()
update_values(heap, values, b) ==
    IF values = <<>> THEN heap
    ELSE LET value == Head(values)
             after == IF is_dict(heap, value) THEN update_dict(heap, value.ref, b)
                      ELSE IF is_list(heap, value)
                           THEN update_items(heap, heap[value.ref].list, b)
                           ELSE heap
         IN  update_values(after, Tail(values), b)

update_dict(heap, d, b) ==
    LET obj == heap[d].dict
        found == /\ "block_identifier" \in DOMAIN obj
                 /\ is_dict(heap, obj["block_identifier"])
                 /\ "index" \in DOMAIN heap[obj["block_identifier"].ref].dict
        set == IF found
               THEN [heap EXCEPT ![obj["block_identifier"].ref].dict["index"] = PyInt(b)]
               ELSE heap
        ks == keys(obj)
    IN  update_values(set, [i \in 1..Len(ks) |-> obj[ks[i]]], b)

\* the heap after the call and the value returned
update_block_index(heap, payload, b) ==
    LET updated_payload == deepcopy(heap, payload)
    IN  [heap |-> update_dict(updated_payload.heap, updated_payload.value.ref, b),
         value |-> updated_payload.value]

\* test_endpoint_concurrency: the endpoint it sends requests for
test_endpoint(heap, endpoint_def, block) ==
    LET copied == shallow_copy(heap, endpoint_def)
        te == copied.value.ref
    IN  IF block # None /\ "payload" \in DOMAIN copied.heap[te].dict
        THEN LET updated == update_block_index(copied.heap,
                                copied.heap[te].dict["payload"], block[1])
             IN  [heap |-> [updated.heap EXCEPT ![te].dict["payload"] = updated.value],
                  value |-> copied.value]
        ELSE copied

(***************************************************************************)
(* The calls of update_block_index and of the first lines of               *)
(* test_endpoint_concurrency on the endpoint definitions of a              *)
(* configuration, in any number and order.                                 *)
(***************************************************************************)
\* what a block_identifier key holds in a payload
BlockIdentifiers ==
    {PyDict("index" :> PyInt(0)),
     PyDict("hash" :> PyInt(0)),
     PyDict("hash" :> PyInt(0) @@ "index" :> PyInt(0)),
     PyInt(0)}

\* the mappings nested in a payload
Mappings ==
    {PyDict(<<>>)} \cup {PyDict("block_identifier" :> bi) : bi \in BlockIdentifiers}

\* what the items key of a payload holds: a mapping, a sequence of mappings
\* and scalars, or a sequence of such sequences
Nested ==
    Mappings
    \cup {PyList(<<m>>) : m \in Mappings}
    \cup {PyList(<<PyInt(0), m>>) : m \in Mappings}
    \cup {PyList(<<PyList(<<m>>)>>) : m \in Mappings}

Payloads ==
    Mappings \cup {PyDict(m.dict @@ "items" :> n) : m \in Mappings, n \in Nested}

\* the endpoint definitions of the configuration, with a payload or without
EndpointDefinitions ==
    {PyDict("method" :> PyInt(0))}
    \cup {PyDict("method" :> PyInt(0) @@ "payload" :> p) : p \in Payloads}

\* the objects a value reaches, without the objects nothing refers to any more
collect(heap, value) == build(<<>>, tree_of(heap, value))

PayloadInit ==
    /\ NoRun
    /\ \E e \in EndpointDefinitions :
           LET loaded == build(<<>>, e)
           IN  call = [function |-> "yaml.safe_load", heap |-> loaded.heap,
                       endpoint |-> loaded.value, original |-> e,
                       block |-> None, result |-> None]

\* what is left of a call: the configuration's objects, and the value returned
returned(function, block, out) ==
    LET kept == collect(out.heap, call.endpoint)
    IN  [function |-> function, heap |-> kept.heap, endpoint |-> kept.value,
         original |-> call.original, block |-> block,
         result |-> Some(tree_of(out.heap, out.value))]

\* update_block_index(endpoint["payload"], b)
UpdateBlockIndex(b) ==
    /\ "payload" \in DOMAIN call.heap[call.endpoint.ref].dict
    /\ call' = returned("update_block_index", Some(b),
                   update_block_index(call.heap,
                       call.heap[call.endpoint.ref].dict["payload"], b))
    /\ UNCHANGED run

\* test_endpoint_concurrency(endpoint, block), up to the warm-up
PrepareTestEndpoint(block) ==
    /\ call' = returned("test_endpoint_concurrency", block,
                   test_endpoint(call.heap, call.endpoint, block))
    /\ UNCHANGED run

PayloadNext ==
    \/ \E b \in 1..MaxBlock : UpdateBlockIndex(b)
    \/ \E block \in {None} \cup {Some(b) : b \in 1..MaxBlock} : PrepareTestEndpoint(block)

PayloadSpec == PayloadInit /\ [][PayloadNext]_vars

(***************************************************************************)
(* The calls of aggregate_block_metrics on the block metrics a sweep can   *)
(* collect: each block's PerformanceMetrics is the one                     *)
(* test_endpoint_concurrency builds from the results of its requests.      *)
(***************************************************************************)
MaxSweep == 3
MaxBlockRequests == 2

\* the response times of the requests of a block, in clock ticks
BlockTimes == {5, 7}

\* what the network does with one request of a block
BlockOutcomes ==
    [kind : {"response"}, status : {200}, exception : {""}, elapsed : BlockTimes]
    \cup
    [kind : {"exception"}, status : {0}, exception : {"ClientConnectorError"},
     elapsed : BlockTimes]

\* the configuration of a sweep of `blocks` blocks with n requests each
SweepConfig(n, blocks) ==
    [NoConfig EXCEPT !.total_requests = n, !.use_block_range = TRUE,
                     !.block_end = blocks]

\* the metrics of one block, for every mix of outcomes of its n requests
BlockMetrics(n, block) ==
    {performance_metrics(SweepConfig(n, block), PathNames[2],
                         [i \in 1..n |-> make_request(outcomes[i], None)], Some(block)) :
         outcomes \in [1..n -> BlockOutcomes]}

\* the sequences of block metrics of the sweeps of `blocks` blocks
RECURSIVE Sweeps(_, _)
Sweeps(n, blocks) ==
    IF blocks = 0 THEN {<<>>}
    ELSE {Append(bm, last) : bm \in Sweeps(n, blocks - 1), last \in BlockMetrics(n, blocks)}

AggregateInit ==
    /\ NoRun
    /\ \E n \in 1..MaxBlockRequests, blocks \in 0..MaxSweep :
           \E bm \in Sweeps(n, blocks) :
               call = [function |-> "aggregate_block_metrics",
                       cfg |-> SweepConfig(n, blocks), block_metrics |-> bm,
                       called |-> FALSE, result |-> None, raised |-> None]

\* the call returns its AggregatedMetrics
AggregateReturns ==
    /\ ~call.called
    /\ ~aggregate_raises(call.block_metrics)
    /\ call' = [call EXCEPT !.called = TRUE,
                            !.result = Some(aggregate_block_metrics(call.cfg,
                                               PathNames[2], call.block_metrics))]
    /\ UNCHANGED run

\* min() or max() raises in the call
AggregateRaises ==
    /\ ~call.called
    /\ aggregate_raises(call.block_metrics)
    /\ call' = [call EXCEPT !.called = TRUE, !.raised = Some("ValueError")]
    /\ UNCHANGED run

AggregateNext == AggregateReturns \/ AggregateRaises

AggregateSpec == AggregateInit /\ [][AggregateNext]_vars

(***************************************************************************)
(* The statistics of the response times of the successful requests.  A     *)
(* response time is the difference of two readings of time.time(), a whole *)
(* number of clock ticks: the products and sums below are exact, and each  *)
(* statistic is rounded once, by its division.                             *)
(***************************************************************************)
MaxSamples == 4
MaxSampleTime == 3

\* Python's a / n for integers a >= 0, n > 0: the correctly rounded quotient
FQuotient(a, n) ==
    IF a = 0 THEN FZero
    ELSE LET j == ShiftUp(2 * n, a + 1)
             q == FDivInt(a, n * Pow2(j))
         IN  [m |-> q.m, e |-> q.e + j]

\* sorted(data)
sorted(data) == SortSeq(data, LAMBDA a, b : a < b)

\* statistics.quantiles(data, n=n, method='exclusive')[i - 1] for sorted data
\* of at least two points: the i-th cut point, interpolated between two
\* neighbours, or extrapolated from the last two when it lies beyond them
cut_point(data, n, i) ==
    LET ld == Len(data)
        m == ld + 1
        j0 == (i * m) \div n
        j == IF j0 < 1 THEN 1 ELSE IF j0 > ld - 1 THEN ld - 1 ELSE j0
        delta == i * m - j * n
    IN  FQuotient(data[j] * (n - delta) + data[j + 1] * delta, n)

quantile(data, n, i) == cut_point(sorted(data), n, i)

\* a variant of the mean that forgets the division
sum_as_mean(data) == FFromInt(SumSeq(data))

\* statistics.mean(response_times)
mean(data) == FQuotient(SumSeq(data), Len(data))

\* test_endpoint_concurrency: avg, min, max, p95 and p99 of response_times
response_time_statistics(response_times) ==
    IF response_times # <<>>
    THEN [avg_response_time |-> mean(response_times),
          min_response_time |-> FFromInt(SeqMin(response_times)),
          max_response_time |-> FFromInt(SeqMax(response_times)),
          p95_response_time |-> IF Len(response_times) > 1
                                THEN quantile(response_times, 20, 19)
                                ELSE FFromInt(response_times[1]),
          p99_response_time |-> IF Len(response_times) > 1
                                THEN quantile(response_times, 100, 99)
                                ELSE FFromInt(response_times[1])]
    ELSE [avg_response_time |-> FZero, min_response_time |-> FZero,
          max_response_time |-> FZero, p95_response_time |-> FZero,
          p99_response_time |-> FZero]

\* the response times of the successful requests of an invocation, in the
\* order of the requests
ResponseTimes == UNION {[1..n -> 1..MaxSampleTime] : n \in 0..MaxSamples}

StatisticsInit ==
    /\ NoRun
    /\ \E times \in ResponseTimes :
           call = [function |-> "test_endpoint_concurrency",
                   response_times |-> times, result |-> None]

ComputeStatistics ==
    /\ call.result = None
    /\ call' = [call EXCEPT !.result = Some(response_time_statistics(call.response_times))]
    /\ UNCHANGED run

StatisticsNext == ComputeStatistics

StatisticsSpec == StatisticsInit /\ [][StatisticsNext]_vars

(***************************************************************************)
(* A call of test_endpoint_concurrency against a clock.  time.time() is    *)
(* read from a clock that counts milliseconds; the server answers every    *)
(* request with status 200 exactly d milliseconds after it was sent, and   *)
(* the steps of the program take no time: the clock moves only while the   *)
(* event loop has no task to run and no answer to deliver.  The call is    *)
(* the one of a run with one endpoint and no block range; the actions are  *)
(* those of the run, and the clock is kept in the variable call.           *)
(***************************************************************************)
MaxTimedRequests == 10
MaxTimedConcurrent == 3

\* time.time() counts seconds, the clock of the model milliseconds
TicksPerSecond == 1000

\* the time the server takes for a request, in milliseconds
Durations == {100, 250}

\* the configurations of the timed calls
TimedConfigs ==
    {[keys |-> {"endpoints"}, endpoints |-> EndpointList(<<FALSE>>),
      use_block_range |-> FALSE, block_start |-> 1, block_end |-> 1,
      concurrent_requests |-> k, total_requests |-> n, warm_up_requests |-> w,
      verbose |-> FALSE] :
        n \in 0..MaxTimedRequests, k \in 1..MaxTimedConcurrent, w \in 0..MaxWarmUp}

\* run_all_tests calls test_endpoint_concurrency for its only endpoint when
\* the clock shows 0
TimedInit ==
    /\ config \in TimedConfigs
    /\ pc = "test_endpoint"
    /\ endpoint = 1
    /\ block_index = None
    /\ block_metrics = <<>>
    /\ all_results = <<>>
    /\ exception = None
    /\ task = NewTasks(0)
    /\ ready = <<>>
    /\ sem_value = 0
    /\ sem_waiters = <<>>
    /\ network = {}
    /\ report = None
    /\ main_return = None
    /\ exit_status = None
    /\ \E d \in Durations :
           call = [function |-> "test_endpoint_concurrency", now |-> 0, d |-> d,
                   sent_at |-> <<>>, start_time |-> None, end_time |-> None,
                   throughput |-> None]

\* make_request reads start_time = time.time() and sends: the request of the
\* running task is on its way from now on
Sent == call' = [call EXCEPT !.sent_at = @ @@ (Running :> call.now)]

\* the answer to the request of task i is due
due(i) == i \in DOMAIN call.sent_at /\ call.now - call.sent_at[i] = call.d

\* the server answers the request of task i, d milliseconds after it was sent
Answered(i) ==
    /\ due(i)
    /\ NetworkComplete(i, [kind |-> "response", status |-> 200, exception |-> "",
                           elapsed |-> call.now - call.sent_at[i]])
    /\ call' = [call EXCEPT !.sent_at = [j \in DOMAIN @ \ {i} |-> @[j]]]

\* the event loop has nothing to run and waits for the network: time passes
\* until the next answer is due
TimePasses ==
    /\ pc \in {"warm_up", "measure"}
    /\ ready = <<>>
    /\ DOMAIN call.sent_at # {}
    /\ \A i \in DOMAIN call.sent_at : ~due(i)
    /\ LET next_due == CHOOSE t \in {call.sent_at[i] + call.d : i \in DOMAIN call.sent_at} :
                           \A i \in DOMAIN call.sent_at : t <= call.sent_at[i] + call.d
       IN  call' = [call EXCEPT !.now = next_due]
    /\ UNCHANGED run

\* start_time = time.time(), after warm_up and before the tasks are created
WindowOpens ==
    /\ WarmUpGathered
    /\ call' = [call EXCEPT !.start_time = Some(call.now)]

\* len(successful_results) / total_time, in requests per second; None where
\* the division raises ZeroDivisionError
throughput(successful_requests, total_time) ==
    IF total_time = 0 THEN None
    ELSE Some(FQuotient(successful_requests * TicksPerSecond, total_time))

\* end_time = time.time(), after the gather; total_time = end_time - start_time
WindowCloses ==
    /\ MeasureGathered
    /\ call' = [call EXCEPT
                   !.end_time = Some(call.now),
                   !.throughput = throughput(Len(successful(gather_results(task))),
                                             call.now - call.start_time[1])]

TimedNext ==
    \/ TestEndpoint /\ UNCHANGED call
    \/ WarmUpRequestStart /\ Sent
    \/ WarmUpRequestReturns /\ UNCHANGED call
    \/ WindowOpens
    \/ AcquireFree /\ Sent
    \/ AcquireBlocked /\ UNCHANGED call
    \/ AcquireWoken /\ Sent
    \/ \E i \in 0..(MaxTimedRequests + MaxWarmUp) : Answered(i)
    \/ BoundedRequestReturns /\ UNCHANGED call
    \/ TimePasses
    \/ WindowCloses

TimedSpec == TimedInit /\ [][TimedNext]_vars

(***************************************************************************)
(* What the properties below speak about.                                  *)
(***************************************************************************)
\* the measurement tasks that hold a slot of the semaphore and have not
\* returned their record
Admitted ==
    IF pc = "measure"
    THEN {i \in DOMAIN task : task[i].state \in {"woken", "in_flight", "responded"}}
    ELSE {}

\* the measurement tasks whose HTTP call has started
Started ==
    IF pc = "measure"
    THEN {i \in DOMAIN task : task[i].state \in {"in_flight", "responded", "done"}}
    ELSE {}

\* the measurement requests on the network
MeasuredInFlight == {r \in network : ~r.warm_up}

\* every PerformanceMetrics test_endpoint_concurrency has returned so far
ReturnedMetrics ==
    {all_results[i] : i \in {j \in DOMAIN all_results :
                                 all_results[j].type = "PerformanceMetrics"}}
    \cup {block_metrics[i] : i \in DOMAIN block_metrics}
    \cup UNION {{all_results[i].block_metrics[b] : b \in DOMAIN all_results[i].block_metrics} :
                   i \in {j \in DOMAIN all_results :
                              all_results[j].type = "AggregatedMetrics"}}

\* the TimingRecords make_request has returned to the current gather, with
\* the outcome of the request of each
ReturnedRecords ==
    {[record |-> task[i].result[1], outcome |-> task[i].io[1]] :
         i \in {j \in DOMAIN task : task[j].state = "done"}}

\* test_endpoint_concurrency has raised instead of returning its metrics
DriverRaised ==
    exception # None /\ exception[1].raised_in = "test_endpoint_concurrency"

(***************************************************************************)
(* C1: during a measurement phase with concurrent_requests = k, the number *)
(* of measurement requests that hold a slot of the semaphore and have not  *)
(* reached a terminal state is at most k in every reachable state, and so  *)
(* is the number of measurement requests on the network.                   *)
(***************************************************************************)
C1_ConcurrencyBound ==
    /\ Cardinality(Admitted) <= config.concurrent_requests
    /\ Cardinality(MeasuredInFlight) <= config.concurrent_requests

\* k = 2 requests are in flight while a third one queues on the semaphore
C1_Witness ==
    /\ pc = "measure"
    /\ config.concurrent_requests = 2
    /\ Cardinality(MeasuredInFlight) = 2
    /\ \E i \in DOMAIN task : task[i].state = "waiting"

(***************************************************************************)
(* C2: whatever the outcomes of the requests, test_endpoint_concurrency    *)
(* does not raise: an invocation that has ended has returned a             *)
(* PerformanceMetrics to run_all_tests, after one request for each of the  *)
(* total_requests measurement tasks.                                       *)
(***************************************************************************)
C2_DriverAlwaysReturns ==
    /\ ~DriverRaised
    /\ (pc \in {"run_all_tests", "block_loop"} /\ ReturnedMetrics # {}) =>
           /\ DOMAIN task = 0..(config.total_requests - 1)
           /\ \A i \in DOMAIN task : task[i].state = "done"

(***************************************************************************)
(* success_rate + error_rate in floating point, and its distance from 100. *)
(***************************************************************************)
F100 == FFromInt(100)

\* the sums of the percentages of PercentageTable, computed once
Percentages ==
    UNION {{PercentageTable[total][count] : count \in 0..total} :
               total \in DOMAIN PercentageTable}

SumTable == [x \in Percentages |-> [y \in Percentages |-> FAdd(x, y)]]

rate_sum(x, y) ==
    IF x \in Percentages /\ y \in Percentages THEN SumTable[x][y] ELSE FAdd(x, y)

\* the doubles 100 + 2^-40 and 100 - 2^-40: 100 is 1100100 in binary, and the
\* bit of weight 2^-40 is the 47th of a significand that starts at 2^6
Above100 ==
    [m |-> [i \in 1..Precision |->
                IF i <= 7 THEN <<1, 1, 0, 0, 1, 0, 0>>[i] ELSE IF i = 47 THEN 1 ELSE 0],
     e |-> 6]
Below100 ==
    [m |-> [i \in 1..Precision |->
                IF i <= 7 THEN <<1, 1, 0, 0, 0, 1, 1>>[i] ELSE IF i <= 47 THEN 1 ELSE 0],
     e |-> 6]

WithinTolerance(sum) == FLeq(Below100, sum) /\ FLeq(sum, Above100)

\* is x + y within the tolerance of 100?  Computed once for the percentages
\* of PercentageTable
ToleranceTable ==
    [x \in Percentages |-> [y \in Percentages |-> WithinTolerance(SumTable[x][y])]]

sum_within_tolerance(x, y) ==
    IF x \in Percentages /\ y \in Percentages
    THEN ToleranceTable[x][y]
    ELSE WithinTolerance(FAdd(x, y))

(***************************************************************************)
(* C3 as stated: every PerformanceMetrics returned has total_requests =    *)
(* successful_requests + failed_requests and, when total_requests > 0,     *)
(* success_rate + error_rate equal to 100.                                 *)
(***************************************************************************)
C3_RatesSumExactly ==
    \A M \in ReturnedMetrics :
        /\ M.total_requests = M.successful_requests + M.failed_requests
        /\ M.total_requests > 0 => rate_sum(M.success_rate, M.error_rate) = F100

(***************************************************************************)
(* C3 as amended: every PerformanceMetrics returned has total_requests =   *)
(* successful_requests + failed_requests and, when total_requests > 0,     *)
(* success_rate + error_rate within 2^-40 of 100.                          *)
(***************************************************************************)
C3_RatesSumWithinTolerance ==
    \A M \in ReturnedMetrics :
        /\ M.total_requests = M.successful_requests + M.failed_requests
        /\ M.total_requests > 0 =>
               sum_within_tolerance(M.success_rate, M.error_rate)

\* a PerformanceMetrics of three requests, one of them successful: the rates
\* are 33.33333333333333 and 66.66666666666666
C3_Witness ==
    \E M \in ReturnedMetrics :
        /\ M.total_requests = 3
        /\ M.successful_requests = 1
        /\ M.failed_requests = 2

(***************************************************************************)
(* C4: every TimingRecord make_request returns is, for a request that      *)
(* failed, success = False with no status code and a non-empty error text, *)
(* and for a response received and drained, success = True with the status *)
(* code of the response and no error.                                      *)
(***************************************************************************)
C4_ExecutorRecords ==
    \A x \in ReturnedRecords :
        IF x.outcome.kind = "response"
        THEN /\ x.record.success
             /\ x.record.status_code = Some(x.outcome.status)
             /\ x.record.error = None
        ELSE /\ ~x.record.success
             /\ x.record.status_code = None
             /\ x.record.error # None
             /\ x.record.error[1] # ""

(***************************************************************************)
(* C5: under fair scheduling, with every request sent answered, failed or  *)
(* timed out, every invocation of test_endpoint_concurrency eventually     *)
(* returns its PerformanceMetrics to run_all_tests.                        *)
(***************************************************************************)
C5_InvocationsReturn ==
    (pc = "test_endpoint") ~> (pc \in {"run_all_tests", "block_loop"})

(***************************************************************************)
(* C6: the measurement phase ends (its gather returns and the metrics are  *)
(* computed) only in a step from a state in which every one of the         *)
(* total_requests tasks is done, nobody queues on the semaphore and no     *)
(* measurement request is on the network.                                  *)
(***************************************************************************)
C6_CompletionAfterAllTerminal ==
    [][(pc = "measure" /\ pc' # "measure") =>
           /\ DOMAIN task = 0..(config.total_requests - 1)
           /\ \A i \in DOMAIN task : task[i].state = "done"
           /\ \A i \in DOMAIN task : task[i].result # None
           /\ MeasuredInFlight = {}]_vars

\* a measurement of more requests than slots has ended and returned
C6_Witness ==
    /\ pc = "run_all_tests"
    /\ all_results # <<>>
    /\ config.total_requests > config.concurrent_requests
    /\ \A i \in DOMAIN task : task[i].state = "done"

(***************************************************************************)
(* C7: the measurement requests start their HTTP call in submission order: *)
(* in every state, if request j has started then every request i < j has   *)
(* started.                                                                *)
(***************************************************************************)
C7_FifoAdmission ==
    \A j \in Started : \A i \in 0..(j - 1) : i \in Started

\* with one slot, request 2 has queued behind request 1 and has now started
C7_Witness ==
    /\ pc = "measure"
    /\ config.concurrent_requests = 1
    /\ config.total_requests >= 3
    /\ task[0].state = "done"
    /\ task[1].state = "done"
    /\ task[2].state = "in_flight"

C9_EndpointsSequential ==
    /\ \A r \in network :
           /\ endpoint \in DOMAIN config.endpoints
           /\ r.endpoint = config.endpoints[endpoint].path
    /\ pc \in {"run_all_tests", "done"} => network = {}

\* a request of the second endpoint is on the network
C9_Witness ==
    /\ endpoint = 2
    /\ Len(all_results) = 1
    /\ \E r \in network : r.endpoint = config.endpoints[2].path

C11_EndpointNeverMutated ==
    tree_of(call.heap, call.endpoint) = call.original

\* test_endpoint_concurrency has sent a payload that differs from the
\* configured one: a block index was written into the copy
C11_Witness ==
    /\ call.function = "test_endpoint_concurrency"
    /\ call.block # None
    /\ "payload" \in DOMAIN call.original.dict
    /\ call.result[1].dict["payload"] # call.original.dict["payload"]

\* the payload with every block_identifier mapping that has an index, wherever
\* it is, given the index b, and nothing else changed
RECURSIVE rewritten(_, _)
rewritten(tree, b) ==
    IF "int" \in DOMAIN tree THEN tree
    ELSE IF "list" \in DOMAIN tree
    THEN PyList([i \in DOMAIN tree.list |-> rewritten(tree.list[i], b)])
    ELSE PyDict([k \in DOMAIN tree.dict |->
             LET child == tree.dict[k]
             IN  IF /\ k = "block_identifier"
                    /\ "dict" \in DOMAIN child
                    /\ "index" \in DOMAIN child.dict
                 THEN rewritten(PyDict([child.dict EXCEPT !["index"] = PyInt(b)]), b)
                 ELSE rewritten(child, b)])

\* no sequence of the payload holds a sequence: its sequences are sequences of
\* mappings and scalars
RECURSIVE sequences_of_mappings(_)
sequences_of_mappings(tree) ==
    IF "int" \in DOMAIN tree THEN TRUE
    ELSE IF "list" \in DOMAIN tree
    THEN \A i \in DOMAIN tree.list :
             "list" \notin DOMAIN tree.list[i] /\ sequences_of_mappings(tree.list[i])
    ELSE \A k \in DOMAIN tree.dict : sequences_of_mappings(tree.dict[k])

(***************************************************************************)
(* C12: update_block_index(payload, b) returns the payload with  *)
(* every block_identifier mapping that has an index field, at any depth    *)
(* and reached through mappings or sequences, given index b, and every     *)
(* other value as in the input.                                            *)
(***************************************************************************)
C12_EveryOccurrenceRewritten ==
    call.function = "update_block_index" =>
        call.result[1] = rewritten(call.original.dict["payload"], call.block[1])

(***************************************************************************)
(* The part of C12 that holds: for a payload none of whose sequences holds *)
(* a sequence, update_block_index(payload, b) returns the payload with     *)
(* every block_identifier mapping that has an index field, at any depth,   *)
(* given index b, and every other value as in the input.                   *)
(***************************************************************************)
C12_OccurrencesInMappingsRewritten ==
    (call.function = "update_block_index"
         /\ sequences_of_mappings(call.original.dict["payload"])) =>
        call.result[1] = rewritten(call.original.dict["payload"], call.block[1])

\* a block_identifier.index inside a list of mappings has been rewritten
C12_Witness ==
    /\ call.function = "update_block_index"
    /\ call.original.dict["payload"]
           = PyDict("items" :> PyList(<<PyDict("block_identifier" :>
                                                  PyDict("index" :> PyInt(0)))>>))
    /\ call.result[1]
           = PyDict("items" :> PyList(<<PyDict("block_identifier" :>
                                                  PyDict("index" :> PyInt(call.block[1])))>>))

\* the sum of a field over the blocks 1..n of a sweep
RECURSIVE total_of(_, _, _)
total_of(bm, field, n) ==
    IF n = 0 THEN 0 ELSE total_of(bm, field, n - 1) + bm[n][field]

(***************************************************************************)
(* C13: every AggregatedMetrics A that aggregate_block_metrics returns for *)
(* a sequence block_metrics has total_blocks_tested = len(block_metrics),  *)
(* its three totals equal to the sums of total_requests,                   *)
(* successful_requests and failed_requests over the blocks, and            *)
(* block_metrics itself, in the same order.                                *)
(***************************************************************************)
C13_AggregatedTotals ==
    call.result # None =>
        LET A == call.result[1]
            bm == call.block_metrics
        IN  /\ A.total_blocks_tested = Len(bm)
            /\ A.total_requests_all_blocks = total_of(bm, "total_requests", Len(bm))
            /\ A.successful_requests_all_blocks
                   = total_of(bm, "successful_requests", Len(bm))
            /\ A.failed_requests_all_blocks = total_of(bm, "failed_requests", Len(bm))
            /\ A.block_metrics = bm

\* three blocks of two requests with different numbers of successes are aggregated
C13_Witness ==
    /\ call.result # None
    /\ Len(call.block_metrics) = 3
    /\ call.block_metrics[1].successful_requests = 2
    /\ call.block_metrics[2].successful_requests = 0
    /\ call.block_metrics[3].successful_requests = 1
    /\ call.result[1].successful_requests_all_blocks = 3
    /\ call.result[1].total_requests_all_blocks = 6

(***************************************************************************)
(* C14: in every AggregatedMetrics returned, min_response_time_all_blocks  *)
(* is the least min_response_time among the blocks whose min_response_time *)
(* is strictly positive, and max_response_time_all_blocks is the greatest  *)
(* max_response_time among all blocks.                                     *)
(***************************************************************************)
C14_MinOverPositiveMaxOverAll ==
    call.result # None =>
        LET A == call.result[1]
            bm == call.block_metrics
        IN  /\ \E i \in DOMAIN bm :
                   /\ bm[i].min_response_time > 0
                   /\ A.min_response_time_all_blocks = bm[i].min_response_time
            /\ \A i \in DOMAIN bm :
                   bm[i].min_response_time > 0 =>
                       A.min_response_time_all_blocks <= bm[i].min_response_time
            /\ \E i \in DOMAIN bm :
                   A.max_response_time_all_blocks = bm[i].max_response_time
            /\ \A i \in DOMAIN bm :
                   A.max_response_time_all_blocks >= bm[i].max_response_time

\* the mins 5, 0, 7 of three blocks give the minimum 5
C14_Witness ==
    /\ call.result # None
    /\ [i \in DOMAIN call.block_metrics |-> call.block_metrics[i].min_response_time]
           = <<5, 0, 7>>
    /\ call.result[1].min_response_time_all_blocks = 5
    /\ call.result[1].max_response_time_all_blocks = 7
    /\ call.result[1].total_blocks_tested = 3

(***************************************************************************)
(* C15: for every non-empty sequence of block metrics, whatever the number *)
(* of blocks without a successful request, aggregate_block_metrics returns *)
(* an AggregatedMetrics and does not raise; when no block has a success    *)
(* its minimum and maximum are the fallback value 0.                       *)
(***************************************************************************)
C15_AggregationNeverRaises ==
    (call.called /\ call.block_metrics # <<>>) =>
        /\ call.raised = None
        /\ call.result # None
        /\ (\A i \in DOMAIN call.block_metrics :
                call.block_metrics[i].successful_requests = 0) =>
               /\ call.result[1].min_response_time_all_blocks = 0
               /\ call.result[1].max_response_time_all_blocks = 0

\* the index (from 1) of the sample the rank method picks for the q-th of n
\* quantiles among ld sorted samples: ceil(q / n * ld)
rank(q, n, ld) == (q * ld + n - 1) \div n

(***************************************************************************)
(* C16: for n >= 2 successful samples p95_response_time is the sample of   *)
(* rank ceil(0.95 n) and p99_response_time the sample of rank ceil(0.99 n) *)
(* of the sorted response times; for n = 1 avg, min, max, p95 and p99 are  *)
(* the single sample; for n = 0 they are all 0.                            *)
(***************************************************************************)
C16_RankPercentiles ==
    call.result # None =>
        LET times == sorted(call.response_times)
            n == Len(times)
            S == call.result[1]
        IN  /\ n >= 2 =>
                   /\ S.p95_response_time = FFromInt(times[rank(95, 100, n)])
                   /\ S.p99_response_time = FFromInt(times[rank(99, 100, n)])
            /\ n = 1 =>
                   \A f \in DOMAIN S : S[f] = FFromInt(times[1])
            /\ n = 0 =>
                   \A f \in DOMAIN S : S[f] = FZero

(***************************************************************************)
(* C17: whenever there are at least two successful requests,               *)
(* min_response_time <= avg_response_time <= max_response_time and         *)
(* p95_response_time <= p99_response_time.                                 *)
(***************************************************************************)
C17_StatisticsOrdered ==
    (call.result # None /\ Len(call.response_times) >= 2) =>
        LET S == call.result[1]
        IN  /\ FLeq(S.min_response_time, S.avg_response_time)
            /\ FLeq(S.avg_response_time, S.max_response_time)
            /\ FLeq(S.p95_response_time, S.p99_response_time)

\* the statistics of the response times 3, 1, 2: the mean is 2, and the two
\* percentiles differ
C17_Witness ==
    /\ call.result # None
    /\ call.response_times = <<3, 1, 2>>
    /\ call.result[1].avg_response_time = FFromInt(2)
    /\ call.result[1].p95_response_time # call.result[1].p99_response_time

\* the PerformanceMetrics test_endpoint_concurrency has just returned, while
\* the tasks of its measurement are still those of the last gather; or None
JustReturned ==
    IF pc = "block_loop" /\ block_metrics # <<>>
    THEN Some(block_metrics[Len(block_metrics)])
    ELSE IF /\ pc = "run_all_tests"
            /\ all_results # <<>>
            /\ all_results[Len(all_results)].type = "PerformanceMetrics"
         THEN Some(all_results[Len(all_results)])
         ELSE None

\* the error texts of the failed measurement requests of that invocation
FailedErrors ==
    {task[i].result[1].error[1] :
         i \in {j \in DOMAIN task : task[j].result # None /\ ~task[j].result[1].success}}

(***************************************************************************)
(* C18: the errors of a PerformanceMetrics are the set of the error texts  *)
(* of the failed measurement requests of its invocation: every entry is    *)
(* the text of a failed request, and the failed requests with one text,    *)
(* however many, contribute exactly one entry (a text held once by         *)
(* construction: errors is list(set(...))).                                *)
(***************************************************************************)
C18_ErrorsSetSemantics ==
    JustReturned # None => JustReturned[1].errors = FailedErrors

\* the records of the requests a metrics object of the report carries, under
\* the key individual_timings: one per request, numbered as submitted
carries_timings(m) ==
    /\ "individual_timings" \in DOMAIN m
    /\ m.individual_timings # None
    /\ Len(m.individual_timings[1]) = m.total_requests
    /\ \A i \in DOMAIN m.individual_timings[1] :
           m.individual_timings[1][i].request_id = Some(i - 1)

\* what the claim asks of one object of the report
timings_as_flagged(object) ==
    IF config.verbose
    THEN "block_metrics" \notin DOMAIN object => carries_timings(object)
    ELSE "individual_timings" \notin DOMAIN object

(***************************************************************************)
(* C19: the verbose flag alone decides whether the timings of the requests *)
(* are in the report written.  Without verbose no entry of the results and *)
(* no entry of a block_metrics list has the key individual_timings; with   *)
(* verbose every entry that has the shape of a PerformanceMetrics, in the  *)
(* results or in a block_metrics list, has under individual_timings        *)
(* exactly total_requests records, the i-th submitted with request_id i.   *)
(***************************************************************************)
C19_VerboseDecidesTimings ==
    report # None =>
        \A i \in DOMAIN report[1].results :
            LET item == report[1].results[i]
            IN  /\ timings_as_flagged(item)
                /\ "block_metrics" \in DOMAIN item =>
                       \A b \in DOMAIN item.block_metrics :
                           timings_as_flagged(item.block_metrics[b])

\* a verbose run has reported an endpoint whose two requests, one failed and
\* one answered, are both in the report
C19_Witness ==
    /\ report # None
    /\ config.verbose
    /\ \E i \in DOMAIN report[1].results :
           LET item == report[1].results[i]
           IN  /\ "block_metrics" \notin DOMAIN item
               /\ carries_timings(item)
               /\ Len(item.individual_timings[1]) = 2
               /\ ~item.individual_timings[1][1].success
               /\ item.individual_timings[1][2].success

\* the run and the report succeeded: no exception, and the report is written
succeeded == exception = None /\ report # None

(***************************************************************************)
(* C20: the exit status of the process is 0 when the run and the report    *)
(* succeeded, and 1 when the configuration file was not found or when an   *)
(* exception left the run or the generation of the report.                 *)
(***************************************************************************)
C20_ExitCode ==
    exit_status # None => exit_status = Some(IF succeeded THEN 0 ELSE 1)

(***************************************************************************)
(* The part of C20 that holds: the value main returns is 0 when the run    *)
(* and the report succeeded and 1 otherwise, and a process whose run and   *)
(* report succeeded exits with 0.                                          *)
(***************************************************************************)
C20_MainReturnsCode ==
    /\ main_return # None => main_return = Some(IF succeeded THEN 0 ELSE 1)
    /\ exit_status # None /\ succeeded => exit_status = Some(0)

(***************************************************************************)
(* C24: with total_requests = 0 test_endpoint_concurrency does not fail:   *)
(* it returns a PerformanceMetrics whose success_rate and error_rate are   *)
(* both 0.                                                                 *)
(***************************************************************************)
C24_ZeroRequestsReturnZeroRates ==
    config.total_requests = 0 =>
        /\ ~DriverRaised
        /\ \A M \in ReturnedMetrics : M.success_rate = FZero /\ M.error_rate = FZero

(***************************************************************************)
(* C27: every failed measurement request is in the error summary of the    *)
(* metrics: the error of every failed TimingRecord of an invocation is an  *)
(* element of the errors of the PerformanceMetrics it returns, and metrics *)
(* with failed_requests > 0 have a non-empty errors.                       *)
(***************************************************************************)
C27_FailuresSummarized ==
    JustReturned # None =>
        /\ \A error \in FailedErrors : error \in JustReturned[1].errors
        /\ JustReturned[1].failed_requests > 0 => JustReturned[1].errors # {}

(***************************************************************************)
(* C28: whenever at least one request succeeded the percentiles lie in the *)
(* observed range: min_response_time <= p95_response_time <=               *)
(* max_response_time and min_response_time <= p99_response_time <=         *)
(* max_response_time.                                                      *)
(***************************************************************************)
C28_PercentilesInRange ==
    (call.result # None /\ Len(call.response_times) >= 1) =>
        LET S == call.result[1]
        IN  /\ FLeq(S.min_response_time, S.p95_response_time)
            /\ FLeq(S.p95_response_time, S.max_response_time)
            /\ FLeq(S.min_response_time, S.p99_response_time)
            /\ FLeq(S.p99_response_time, S.max_response_time)

(***************************************************************************)
(* The part of C28 that holds: no percentile is below the minimum, and the *)
(* percentiles of a single response time are that response time.           *)
(***************************************************************************)
C28_PercentilesNotBelowMin ==
    (call.result # None /\ Len(call.response_times) >= 1) =>
        LET S == call.result[1]
        IN  /\ FLeq(S.min_response_time, S.p95_response_time)
            /\ FLeq(S.min_response_time, S.p99_response_time)
            /\ Len(call.response_times) = 1 =>
                   /\ S.p95_response_time = S.max_response_time
                   /\ S.p99_response_time = S.max_response_time

\* the block range of the configuration is empty: range(start, end + 1) has
\* no index
empty_block_range == config.use_block_range /\ config.block_start > config.block_end

\* aggregate_block_metrics has raised instead of returning
AggregationRaised ==
    exception # None /\ exception[1].raised_in = "aggregate_block_metrics"

\* no request is issued for an endpoint that sweeps an empty block range
no_request_for_empty_range ==
    (empty_block_range /\ pc \in {"test_endpoint", "warm_up", "measure"}) =>
        ~uses_sweeper(config, config.endpoints[endpoint])

(***************************************************************************)
(* C30: a sweep over an empty block range (block_start > block_end) issues *)
(* no request and still gives the endpoint its result:                     *)
(* aggregate_block_metrics returns, for the empty sequence of block        *)
(* metrics, an AggregatedMetrics with total_blocks_tested = 0, every total *)
(* 0 and every statistic 0, and the run goes on to the next endpoint.      *)
(***************************************************************************)
C30_EmptyRangeAggregates ==
    empty_block_range =>
        /\ no_request_for_empty_range
        /\ ~AggregationRaised
        /\ pc = "done" => Len(all_results) = Len(config.endpoints)
        /\ \A i \in DOMAIN all_results :
               all_results[i].type = "AggregatedMetrics" =>
                   /\ all_results[i].total_blocks_tested = 0
                   /\ all_results[i].total_requests_all_blocks = 0
                   /\ all_results[i].successful_requests_all_blocks = 0
                   /\ all_results[i].failed_requests_all_blocks = 0
                   /\ all_results[i].min_response_time_all_blocks = 0
                   /\ all_results[i].max_response_time_all_blocks = 0
                   /\ all_results[i].success_rate_all_blocks = FZero
                   /\ all_results[i].error_rate_all_blocks = FZero

(***************************************************************************)
(* The part of C30 that holds: no request is issued for an endpoint that   *)
(* sweeps an empty block range.                                            *)
(***************************************************************************)
C30_EmptyRangeIssuesNoRequest == no_request_for_empty_range

\* the TimingRecord of the request with id i of the invocation that has just
\* returned, and the ids of its requests that succeeded and that failed
record_of(i) == task[i].result[1]
succeeded_ids == {i \in DOMAIN task : record_of(i).success}
failed_ids == {i \in DOMAIN task : ~record_of(i).success}

\* the least and the greatest of a set of numbers, 0 for the empty set
least(S) == IF S = {} THEN 0 ELSE CHOOSE v \in S : \A w \in S : v <= w
greatest(S) == IF S = {} THEN 0 ELSE CHOOSE v \in S : \A w \in S : v >= w

(***************************************************************************)
(* C25: the PerformanceMetrics of an invocation does not depend on the     *)
(* order in which its concurrent requests complete.  The metrics returned  *)
(* are a function of the TimingRecord of each request id alone: the counts *)
(* are the numbers of ids that succeeded and that failed, the rates and    *)
(* the response-time statistics are those of these ids, the errors are the *)
(* non-empty error texts of the ids that failed, and in verbose mode       *)
(* individual_timings lists the record of id i at position i, the order of *)
(* submission.                                                             *)
(***************************************************************************)
C25_MetricsIndependentOfCompletionOrder ==
    JustReturned # None =>
        LET M == JustReturned[1]
            N == config.total_requests
        IN  /\ DOMAIN task = 0..(N - 1)
            /\ M.total_requests = N
            /\ M.successful_requests = Cardinality(succeeded_ids)
            /\ M.failed_requests = Cardinality(failed_ids)
            /\ M.success_rate = rate(Cardinality(succeeded_ids), N)
            /\ M.error_rate = rate(Cardinality(failed_ids), N)
            /\ M.min_response_time =
                   least({record_of(i).response_time : i \in succeeded_ids})
            /\ M.max_response_time =
                   greatest({record_of(i).response_time : i \in succeeded_ids})
            /\ M.errors = {record_of(i).error[1] : i \in failed_ids} \ {""}
            /\ IF config.verbose
               THEN M.individual_timings = Some([i \in 1..N |-> record_of(i - 1)])
               ELSE M.individual_timings = None

\* a verbose invocation of two requests that share the two slots of the
\* semaphore, and so complete in either order, has returned: the first
\* request submitted failed and the second was answered
C25_Witness ==
    /\ JustReturned # None
    /\ config.verbose
    /\ config.total_requests = 2
    /\ config.concurrent_requests = 2
    /\ ~record_of(0).success
    /\ record_of(1).success
    /\ JustReturned[1].individual_timings = Some(<<record_of(0), record_of(1)>>)

(***************************************************************************)
(* C22: the outcomes of the warm-up requests never affect the result of an *)
(* invocation.  Whatever the warm-up requests returned, the step that ends *)
(* the warm-up leads to the measurement phase and keeps none of their      *)
(* records: the run starts the measurement with total_requests fresh       *)
(* tasks, an empty network and the results it had before.  The metrics the *)
(* measurement returns are computed from the total_requests records of its *)
(* own tasks: the counts add up to total_requests, the errors are errors   *)
(* of these records, and in verbose mode individual_timings holds exactly  *)
(* these records, each with the request_id of a measurement request.       *)
(***************************************************************************)
C22_WarmUpOutcomesDiscarded ==
    [][/\ (pc = "warm_up" /\ pc' # "warm_up") =>
              /\ pc' = "measure"
              /\ exception' = None
              /\ task' = NewTasks(config.total_requests)
              /\ network' = {}
              /\ UNCHANGED <<endpoint, block_index, block_metrics, all_results>>
       /\ (pc = "measure" /\ pc' \in {"run_all_tests", "block_loop"}) =>
              LET M == JustReturned'[1]
                  N == config.total_requests
              IN  /\ DOMAIN task = 0..(N - 1)
                  /\ \A i \in DOMAIN task :
                         record_of(i).request_id = bounded_request_id(config, i)
                  /\ M.total_requests = N
                  /\ M.successful_requests + M.failed_requests = N
                  /\ M.errors \subseteq FailedErrors
                  /\ config.verbose =>
                         M.individual_timings = Some([i \in 1..N |-> record_of(i - 1)])
      ]_vars

\* every warm-up request of an invocation has failed, and warm_up is about to
\* return to test_endpoint_concurrency
C22_Witness ==
    /\ pc = "warm_up"
    /\ config.warm_up_requests >= 1
    /\ config.total_requests >= 1
    /\ gather_done(task)
    /\ \A i \in DOMAIN task : ~task[i].result[1].success

\* the warm-up requests on the network
WarmUpInFlight == {r \in network : r.warm_up}

(***************************************************************************)
(* C26: within one invocation the phases are ordered.  The warm-up ends,   *)
(* and the measurement with its throughput window starts, only in a step   *)
(* from a state in which every one of the warm_up_requests warm-up tasks   *)
(* is done and no request is on the network; a measurement request is on   *)
(* the network only in the measurement phase, with no warm-up request      *)
(* beside it.  The warm-up requests do not pass the semaphore: during the  *)
(* warm-up no task waits for a slot and every task that has started has    *)
(* sent its request, so that up to warm_up_requests of them are in flight  *)
(* at once, even when warm_up_requests > concurrent_requests.              *)
(***************************************************************************)
C26_PhasesOrdered ==
    [][/\ (pc = "warm_up" /\ pc' # "warm_up") =>
              /\ pc' = "measure"
              /\ DOMAIN task = 0..(config.warm_up_requests - 1)
              /\ \A i \in DOMAIN task : task[i].state = "done"
              /\ network = {}
       /\ MeasuredInFlight' # {} => pc' = "measure" /\ WarmUpInFlight' = {}
       /\ pc' = "warm_up" =>
              /\ sem_waiters' = <<>>
              /\ \A i \in DOMAIN task' :
                     task'[i].state \in {"ready", "in_flight", "responded", "done"}
              /\ Cardinality(WarmUpInFlight') =
                     Cardinality({i \in DOMAIN task' : task'[i].state = "in_flight"})
              /\ Cardinality(WarmUpInFlight') <= config.warm_up_requests
      ]_vars

\* more warm-up requests than the semaphore has slots are in flight at once:
\* all warm_up_requests of them
C26_Witness ==
    /\ pc = "warm_up"
    /\ config.warm_up_requests > config.concurrent_requests
    /\ Cardinality(WarmUpInFlight) = config.warm_up_requests
    /\ \A i \in DOMAIN task : task[i].state = "in_flight"

\* the index fields of the block_identifier mappings of a payload, at any
\* depth and reached through mappings or sequences
RECURSIVE indices(_)
indices(tree) ==
    IF "int" \in DOMAIN tree THEN {}
    ELSE IF "list" \in DOMAIN tree
    THEN UNION {indices(tree.list[i]) : i \in DOMAIN tree.list}
    ELSE UNION {LET child == tree.dict[k]
                IN  indices(child) \cup
                    (IF /\ k = "block_identifier"
                        /\ "dict" \in DOMAIN child
                        /\ "index" \in DOMAIN child.dict
                     THEN {child.dict["index"]}
                     ELSE {}) : k \in DOMAIN tree.dict}

\* the payload of the endpoint test_endpoint_concurrency has prepared for the
\* block of its call: what warm_up and bounded_request send with every request
PayloadSent ==
    IF /\ call.function = "test_endpoint_concurrency"
       /\ call.block # None
       /\ "payload" \in DOMAIN call.result[1].dict
    THEN Some(call.result[1].dict["payload"])
    ELSE None

(***************************************************************************)
(* C29: every request, warm-up or measured, of the invocation for block    *)
(* index b carries a payload whose block_identifier.index fields all equal *)
(* b: none is sent with the index of the configuration or with the index   *)
(* of a block swept before.                                                *)
(***************************************************************************)
C29_RequestsCarryBlockIndex ==
    PayloadSent # None => indices(PayloadSent[1]) \subseteq {PyInt(call.block[1])}

(***************************************************************************)
(* The part of C29 that holds: a payload none of whose sequences holds a   *)
(* sequence is sent with every block_identifier.index equal to b; and in   *)
(* any payload an index that is not b is the index of the configuration,   *)
(* never the index of a block swept before.                                *)
(***************************************************************************)
C29_IndexOfBlockOrOfConfiguration ==
    PayloadSent # None =>
        /\ sequences_of_mappings(call.original.dict["payload"]) =>
               indices(PayloadSent[1]) \subseteq {PyInt(call.block[1])}
        /\ indices(PayloadSent[1]) \subseteq
               {PyInt(call.block[1])} \cup indices(call.original.dict["payload"])

\* the run has ended with a configuration error: the file is missing, or a
\* key the code reads is
ConfigurationErrorRaised ==
    /\ exception # None
    /\ \/ exception[1].type = "FileNotFoundError"
       \/ exception[1].type = "KeyError" /\ exception[1].raised_in = "run_all_tests"

\* the requests the run has issued for the endpoints it has a result for:
\* warm_up_requests + total_requests for every invocation of an endpoint that
\* has its method
RequestsIssued ==
    SumSeq([i \in DOMAIN all_results |->
               IF sends(config.endpoints[i])
               THEN (IF all_results[i].type = "AggregatedMetrics"
                     THEN all_results[i].total_blocks_tested ELSE 1)
                    * (config.warm_up_requests + config.total_requests)
               ELSE 0])

(***************************************************************************)
(* C21: a configuration error (a missing file, or a file without the       *)
(* endpoints list or with an entry that lacks path or method) is fatal and *)
(* is detected before any HTTP request of the run: run_all_tests does not  *)
(* run to its end on a malformed configuration, and in every run that ends *)
(* with a configuration error the number of requests issued is 0.          *)
(***************************************************************************)
C21_ConfigErrorBeforeAnyRequest ==
    /\ malformed(config) => pc # "done"
    /\ ConfigurationErrorRaised => RequestsIssued = 0

(***************************************************************************)
(* The part of C21 that holds: a run on a missing file, on a file without  *)
(* the endpoints list or on a file whose first entry lacks its path puts   *)
(* no request on the network and does not run to its end.                  *)
(***************************************************************************)
C21_ErrorAtFirstEndpointBeforeAnyRequest ==
    [][(\/ exception # None /\ exception[1].type = "FileNotFoundError"
        \/ key_missing(config, 1)) =>
           network' \subseteq network /\ pc' # "done"]_vars

(***************************************************************************)
(* C23: with total_requests = N, concurrent_requests = k and every request *)
(* answered with success exactly d after it was sent, the measurement      *)
(* window end_time - start_time is ceil(N / k) * d and the throughput is   *)
(* the number of successful requests divided by the window; for N = 10,    *)
(* k = 2 and d = 100 ms the window is 500 ms, the throughput 20 requests   *)
(* per second, the success rate 100 and the error rate 0.                  *)
(***************************************************************************)
\* ceil(n / k)
rounds(n, k) == (n + k - 1) \div k

\* the window the call has measured, in milliseconds
window == call.end_time[1] - call.start_time[1]

C23_WindowAndThroughput ==
    (call.function = "test_endpoint_concurrency" /\ call.end_time # None) =>
        LET N == config.total_requests
            k == config.concurrent_requests
        IN  /\ window = rounds(N, k) * call.d
            /\ \A M \in ReturnedMetrics :
                   /\ M.successful_requests = N
                   /\ M.min_response_time = call.d
                   /\ M.max_response_time = call.d
                   /\ call.throughput =
                          Some(FQuotient(M.successful_requests * TicksPerSecond, window))
                   /\ M.success_rate = F100
                   /\ M.error_rate = FZero
            /\ (N = 10 /\ k = 2 /\ call.d = 100) =>
                   /\ window = 500
                   /\ call.throughput = Some(FFromInt(20))
                   /\ ReturnedMetrics # {}

\* the scenario of the specification has run to its end, after a warm-up
C23_Witness ==
    /\ call.function = "test_endpoint_concurrency"
    /\ call.end_time # None
    /\ config.total_requests = 10
    /\ config.concurrent_requests = 2
    /\ config.warm_up_requests > 0
    /\ call.d = 100
    /\ window = 500
    /\ call.start_time = Some(100)
    /\ call.throughput = Some(FFromInt(20))
====
